---- MODULE Spec2Model ----
(***************************************************************************)
(* Model of src/main.py: the two entry points print_grid_from_data (a TSV  *)
(* string read through pandas) and print_grid_from_unstructured_doc (a     *)
(* published document scanned with the regex (\d+)(\D)(\d+)).              *)
(*                                                                         *)
(* Text is a sequence of one-character strings.  One run of one entry      *)
(* point is one behaviour: Init draws the entry point and its input, the   *)
(* actions are the statements of the function in program order, and `out`  *)
(* collects one entry per print call.                                      *)
(***************************************************************************)
EXTENDS Integers, Sequences, FiniteSets

VARIABLES fn, input, pc, table_i, pos, matches, points, columns, data,
          max_x, max_y, grid, it, out, raised

vars == <<fn, input, pc, table_i, pos, matches, points, columns, data,
          max_x, max_y, grid, it, out, raised>>

\* ---------------------------------------------------------------- bounds
MaxLen == 7      \* longest document text, in characters
MaxRun == 2      \* longest run of digits in a document text
MaxTr == 1       \* most <tr> rows of the document's first table
MaxRows == 2     \* most data lines of the TSV string

\* ------------------------------------------------------------ characters
Digits == {"0", "1", "2", "3", "4", "5", "6", "7", "8", "9"}
TextDigits == {"0", "1"}
TextNonDigits == {"A"}
Alphabet == TextDigits \cup TextNonDigits

IsDigit(c) == c \in Digits

DigitVal(c) ==
    CASE c = "0" -> 0 [] c = "1" -> 1 [] c = "2" -> 2 [] c = "3" -> 3
      [] c = "4" -> 4 [] c = "5" -> 5 [] c = "6" -> 6 [] c = "7" -> 7
      [] c = "8" -> 8 [] c = "9" -> 9

\* int(s) for a string of decimal digits
RECURSIVE ParseInt(_)
ParseInt(s) ==
    IF Len(s) = 0 THEN 0
    ELSE ParseInt(SubSeq(s, 1, Len(s) - 1)) * 10 + DigitVal(s[Len(s)])

Min(S) == CHOOSE m \in S : \A n \in S : m <= n
Max(S) == CHOOSE m \in S : \A n \in S : m >= n

\* ------------------------------------------------- the regex (\d+)(\D)(\d+)
\* Positions are 1-based; a span [s, e) covers text[s] .. text[e-1].
\* First position at or after i that holds no digit (Len+1 at the end):
\* where a greedy \d+ starting at i stops.
RunEnd(text, i) ==
    Min({j \in i..(Len(text) + 1) : j = Len(text) + 1 \/ ~IsDigit(text[j])})

NoMatch == [s |-> 0, sep |-> 0, e |-> 0]

\* The match of the pattern anchored at position i, or NoMatch.
MatchAt(text, i) ==
    IF ~IsDigit(text[i]) THEN NoMatch
    ELSE LET j == RunEnd(text, i) IN
         IF j + 1 <= Len(text) /\ IsDigit(text[j + 1])
         THEN [s |-> i, sep |-> j, e |-> RunEnd(text, j + 1)]
         ELSE NoMatch

\* A scan that resumes inside the previous match, at its second digit run.
ResumeAtSecondRun(m) == m.sep + 1

\* Where the scan for the next match starts after match m.
ResumeAt(m) == m.e

\* The leftmost match starting at or after position p, or NoMatch.
Search(text, p) ==
    LET starts == {i \in p..Len(text) : MatchAt(text, i) # NoMatch} IN
    IF starts = {} THEN NoMatch ELSE MatchAt(text, Min(starts))

\* The point a match yields.
PointOf(text, m) ==
    [x |-> ParseInt(SubSeq(text, m.s, m.sep - 1)),
     char |-> <<text[m.sep]>>,
     y |-> ParseInt(SubSeq(text, m.sep + 1, m.e - 1))]

\* ------------------------------------------------------------------ output
Blank == <<" ">>

Line(kind, msg, val) == [kind |-> kind, msg |-> msg, val |-> val]

RECURSIVE Join(_)
Join(row) == IF row = <<>> THEN <<>> ELSE Head(row) \o Join(Tail(row))

\* [[' ' for _ in range(mx + 1)] for _ in range(my + 1)]
NewGrid(mx, my) == [r \in 1..(my + 1) |-> [c \in 1..(mx + 1) |-> Blank]]

\* A write that counts x from the right edge of the row.
SetCellMirrored(g, x, y, char) == [g EXCEPT ![y + 1][Len(g[y + 1]) - x] = char]

\* grid[y][x] = char
SetCell(g, x, y, char) == [g EXCEPT ![y + 1][x + 1] = char]

\* Handlers that catch RequestException alone: anything else leaves the function.
DocExceptNarrow(e) ==
    IF e = "RequestException"
    THEN [lines |-> <<Line("diag", "Error fetching URL", <<e>>)>>, raised |-> "none"]
    ELSE [lines |-> <<>>, raised |-> e]

\* The handlers of print_grid_from_unstructured_doc: what they print and what
\* leaves the function.  RequestException and every other Exception are caught.
DocExcept(e) ==
    [lines |-> <<Line("diag",
                      IF e = "RequestException" THEN "Error fetching URL"
                                                ELSE "An error occurred", <<e>>)>>,
     raised |-> "none"]

\* The handlers of print_grid_from_data: KeyError and every other Exception.
DataExcept(e) ==
    [lines |-> <<Line("diag",
                      IF e = "KeyError" THEN "A column is missing in the data"
                                        ELSE "An error occurred", <<e>>)>>,
     raised |-> "none"]

\* ------------------------------------------------------- tabular cells
x_col == "x-coordinate"
char_col == "Character"
y_col == "y-coordinate"
required_cols == <<x_col, y_col, char_col>>

Range(f) == {f[i] : i \in DOMAIN f}

IsIntText(c) ==
    LET body == IF Len(c) > 0 /\ c[1] = "-" THEN Tail(c) ELSE c IN
    Len(body) > 0 /\ \A i \in 1..Len(body) : IsDigit(body[i])

\* pd.to_numeric(cell, errors='coerce'): a number, inf, or NaN.
ToNumeric(c) ==
    IF IsIntText(c)
    THEN [tag |-> "num",
          v |-> IF c[1] = "-" THEN 0 - ParseInt(Tail(c)) ELSE ParseInt(c)]
    ELSE IF c = <<"i", "n", "f">> THEN [tag |-> "inf", v |-> 0]
    ELSE [tag |-> "nan", v |-> 0]

\* dropna(subset=[x_col, y_col]): the row is kept when neither is NaN.
NotNa(row) == ToNumeric(row[x_col]).tag # "nan" /\ ToNumeric(row[y_col]).tag # "nan"

\* astype(int) fails on a column that still holds a non-finite value.
Finite(row) == ToNumeric(row[x_col]).tag = "num" /\ ToNumeric(row[y_col]).tag = "num"

\* str(row[char_col]): an empty cell was read as NaN.
Str(c) == IF c = <<>> THEN <<"n", "a", "n">> ELSE c

\* The row after lines 38-46: integer coordinates, the other columns as read.
Coerced(row) ==
    [row EXCEPT ![x_col] = ToNumeric(row[x_col]).v,
                ![y_col] = ToNumeric(row[y_col]).v]

\* One DataFrame row: the cells of a line under the header's column names.
RowOf(cols, line) ==
    [name \in Range(cols) |-> line[CHOOSE i \in DOMAIN cols : cols[i] = name]]


\* ------------------------------------------------------------------ inputs
RunsOk(t) ==
    \A i \in 1..Len(t) :
        IsDigit(t[i]) => RunEnd(t, i) - i <= MaxRun

\* The fixture text "1A2".
Fixtures == {<<"1", "A", "2">>}

Texts == {t \in UNION {[1..n -> Alphabet] : n \in 0..MaxLen} : RunsOk(t)} \cup Fixtures

Docs ==
    {[fetch |-> FALSE, table |-> FALSE, trs |-> 0, text |-> <<>>]}
    \cup {[fetch |-> TRUE, table |-> FALSE, trs |-> 0, text |-> t] : t \in Texts}
    \cup {[fetch |-> TRUE, table |-> TRUE, trs |-> n, text |-> t] :
            n \in 0..MaxTr, t \in Texts}

XCells == {<<"-", "2">>, <<"0">>, <<"1">>, <<"a", "b", "c">>, <<"i", "n", "f">>}
CharCells == {<<"#">>, <<"a", "b">>}
YCells == {<<"0">>, <<"1">>, <<>>}

Headers == {<<x_col, char_col, y_col>>, <<"x", char_col, y_col>>}
DataLines == XCells \X CharCells \X YCells

\* The non-empty lines of data_string, split at tabs: nothing at all, or a
\* header line followed by data lines.
Tsvs ==
    {<<>>} \cup
    {<<h>> \o rows : h \in Headers,
                     rows \in UNION {[1..n -> DataLines] : n \in 0..MaxRows}}

Idle ==
    /\ table_i = 0 /\ pos = 1 /\ matches = <<>> /\ points = <<>>
    /\ columns = <<>> /\ data = <<>>
    /\ max_x = 0 /\ max_y = 0 /\ grid = <<>> /\ it = 0
    /\ out = <<>> /\ raised = "none"

Init ==
    /\ \/ fn = "doc" /\ input \in Docs /\ pc = "doc_fetch"
       \/ fn = "data" /\ input \in Tsvs /\ pc = "data_lines"
    /\ Idle

Emit(l) == out' = Append(out, l)

\* ------------------------------------- print_grid_from_unstructured_doc
\* Lines 86-88: the progress line, then the request.
Doc_Fetch ==
    /\ pc = "doc_fetch"
    /\ IF input.fetch
       THEN /\ out' = Append(out, Line("info", "Fetching data from", <<>>))
            /\ pc' = "doc_parse"
            /\ UNCHANGED raised
       ELSE /\ out' = Append(out, Line("info", "Fetching data from", <<>>))
                      \o DocExcept("RequestException").lines
            /\ raised' = DocExcept("RequestException").raised
            /\ pc' = "done"
    /\ UNCHANGED <<fn, input, table_i, pos, matches, points, columns, data,
                   max_x, max_y, grid, it>>

\* Lines 91-95: soup.find('table') is None when the document has no table,
\* and table.find_all then raises AttributeError.
Doc_Parse ==
    /\ pc = "doc_parse"
    /\ IF input.table
       THEN /\ pc' = "doc_table"
            /\ UNCHANGED <<out, raised>>
       ELSE /\ out' = out \o DocExcept("AttributeError").lines
            /\ raised' = DocExcept("AttributeError").raised
            /\ pc' = "done"
    /\ UNCHANGED <<fn, input, table_i, pos, matches, points, columns, data,
                   max_x, max_y, grid, it>>

\* Lines 95-100: one pass of the loop over the table's rows.
Doc_TableRow ==
    /\ pc = "doc_table"
    /\ table_i < input.trs
    /\ table_i' = table_i + 1
    /\ Emit(Line("info", "row_data", <<>>))
    /\ UNCHANGED <<fn, input, pc, pos, matches, points, columns, data,
                   max_x, max_y, grid, it, raised>>

\* Lines 106-110: the loop over the table's rows is over; the scan starts.
Doc_TableEnd ==
    /\ pc = "doc_table"
    /\ table_i = input.trs
    /\ pc' = "doc_match"
    /\ pos' = 1
    /\ UNCHANGED <<fn, input, table_i, matches, points, columns, data,
                   max_x, max_y, grid, it, out, raised>>

\* Lines 111-115: one pass of the loop over finditer's matches.
Doc_Match ==
    /\ pc = "doc_match"
    /\ LET m == Search(input.text, pos) IN
       /\ m # NoMatch
       /\ matches' = Append(matches, m)
       /\ points' = Append(points, PointOf(input.text, m))
       /\ pos' = ResumeAt(m)
    /\ UNCHANGED <<fn, input, pc, table_i, columns, data,
                   max_x, max_y, grid, it, out, raised>>

\* Lines 117-126: finditer is exhausted; the debugging line, then the
\* empty-result exit.
Doc_MatchEnd ==
    /\ pc = "doc_match"
    /\ Search(input.text, pos) = NoMatch
    /\ IF points = <<>>
       THEN /\ out' = out \o <<Line("info", "Table", <<>>),
                               Line("empty", "No valid coordinate data found in the document.", <<>>)>>
            /\ pc' = "done"
       ELSE /\ out' = Append(out, Line("info", "Table", <<>>))
            /\ pc' = "doc_alloc"
    /\ UNCHANGED <<fn, input, table_i, pos, matches, points, columns, data,
                   max_x, max_y, grid, it, raised>>

\* Lines 129-133.
Doc_Alloc ==
    /\ pc = "doc_alloc"
    /\ max_x' = Max({points[i].x : i \in DOMAIN points})
    /\ max_y' = Max({points[i].y : i \in DOMAIN points})
    /\ grid' = NewGrid(max_x', max_y')
    /\ it' = 1
    /\ pc' = "doc_populate"
    /\ UNCHANGED <<fn, input, table_i, pos, matches, points, columns, data,
                   out, raised>>

\* if 0 <= p['y'] < len(grid) and 0 <= p['x'] < len(grid[0])
DocInBounds(g, p) == 0 <= p.y /\ p.y < Len(g) /\ 0 <= p.x /\ p.x < Len(g[1])

\* Lines 134-136: one pass of the loop over points; after the last, line 139.
Doc_Populate ==
    /\ pc = "doc_populate"
    /\ it <= Len(points)
    /\ LET p == points[it] IN
       grid' = IF DocInBounds(grid, p) THEN SetCell(grid, p.x, p.y, p.char)
                                       ELSE grid
    /\ it' = it + 1
    /\ UNCHANGED <<fn, input, pc, table_i, pos, matches, points, columns, data,
                   max_x, max_y, out, raised>>

Doc_PopulateEnd ==
    /\ pc = "doc_populate"
    /\ it > Len(points)
    /\ it' = 1
    /\ pc' = "doc_print"
    /\ UNCHANGED <<fn, input, table_i, pos, matches, points, columns, data,
                   max_x, max_y, grid, out, raised>>

\* for row in grid: print("".join(row))
Rows(g) == [r \in DOMAIN g |-> Line("grid", "row", Join(g[r]))]

\* Lines 139-140: the loop over the grid's rows.
Doc_Render ==
    /\ pc = "doc_print"
    /\ out' = out \o Rows(grid)
    /\ pc' = "done"
    /\ UNCHANGED <<fn, input, table_i, pos, matches, points, columns, data,
                   max_x, max_y, grid, it, raised>>

\* ------------------------------------------------- print_grid_from_data
\* Lines 17-25: fewer than two non-empty lines end the run; otherwise read_csv
\* takes the first line as the header and the others as the rows.
Data_Lines ==
    /\ pc = "data_lines"
    /\ IF Len(input) <= 1
       THEN /\ Emit(Line("empty", "No data rows found.", <<>>))
            /\ pc' = "done"
            /\ UNCHANGED <<columns, data>>
       ELSE /\ columns' = Head(input)
            /\ data' = [i \in 1..(Len(input) - 1) |-> RowOf(Head(input), input[i + 1])]
            /\ pc' = "data_columns"
            /\ UNCHANGED out
    /\ UNCHANGED <<fn, input, table_i, pos, matches, points,
                   max_x, max_y, grid, it, raised>>

\* Lines 32-35.
Data_Columns ==
    /\ pc = "data_columns"
    /\ IF Range(required_cols) \subseteq Range(columns)
       THEN /\ pc' = "data_coerce"
            /\ UNCHANGED out
       ELSE /\ out' = out \o
                  <<Line("diag", "Input data is missing one of the required columns", required_cols),
                    Line("diag", "Available columns", columns)>>
            /\ pc' = "done"
    /\ UNCHANGED <<fn, input, table_i, pos, matches, points, columns, data,
                   max_x, max_y, grid, it, raised>>

\* Lines 38-46: to_numeric, dropna, astype(int).
Data_Coerce ==
    /\ pc = "data_coerce"
    /\ LET kept == SelectSeq(data, NotNa) IN
       IF \A i \in DOMAIN kept : Finite(kept[i])
       THEN /\ data' = [i \in DOMAIN kept |-> Coerced(kept[i])]
            /\ pc' = "data_empty"
            /\ UNCHANGED <<out, raised>>
       ELSE /\ data' = kept
            /\ out' = out \o DataExcept("IntCastingNaNError").lines
            /\ raised' = DataExcept("IntCastingNaNError").raised
            /\ pc' = "done"
    /\ UNCHANGED <<fn, input, table_i, pos, matches, points, columns,
                   max_x, max_y, grid, it>>

\* Lines 49-51.
Data_Empty ==
    /\ pc = "data_empty"
    /\ IF data = <<>>
       THEN /\ Emit(Line("empty", "No valid data to display.", <<>>))
            /\ pc' = "done"
       ELSE /\ pc' = "data_alloc"
            /\ UNCHANGED out
    /\ UNCHANGED <<fn, input, table_i, pos, matches, points, columns, data,
                   max_x, max_y, grid, it, raised>>

\* Lines 53-57.
Data_Alloc ==
    /\ pc = "data_alloc"
    /\ max_x' = Max({data[i][x_col] : i \in DOMAIN data})
    /\ max_y' = Max({data[i][y_col] : i \in DOMAIN data})
    /\ grid' = NewGrid(max_x', max_y')
    /\ it' = 1
    /\ pc' = "data_populate"
    /\ UNCHANGED <<fn, input, table_i, pos, matches, points, columns, data,
                   out, raised>>

\* if 0 <= y < len(grid) and 0 <= x < len(grid[y])
DataInBounds(g, x, y) == 0 <= y /\ y < Len(g) /\ 0 <= x /\ x < Len(g[y + 1])

\* Lines 60-65: one pass of the loop over data.iterrows().
Data_Populate ==
    /\ pc = "data_populate"
    /\ it <= Len(data)
    /\ LET row == data[it]
           x == row[x_col]
           y == row[y_col]
           char == Str(row[char_col]) IN
       grid' = IF DataInBounds(grid, x, y) THEN SetCell(grid, x, y, char)
                                           ELSE grid
    /\ it' = it + 1
    /\ UNCHANGED <<fn, input, pc, table_i, pos, matches, points, columns, data,
                   max_x, max_y, out, raised>>

Data_PopulateEnd ==
    /\ pc = "data_populate"
    /\ it > Len(data)
    /\ it' = 1
    /\ pc' = "data_print"
    /\ UNCHANGED <<fn, input, table_i, pos, matches, points, columns, data,
                   max_x, max_y, grid, out, raised>>

\* Lines 68-69: the loop over the grid's rows.
Data_Render ==
    /\ pc = "data_print"
    /\ out' = out \o Rows(grid)
    /\ pc' = "done"
    /\ UNCHANGED <<fn, input, table_i, pos, matches, points, columns, data,
                   max_x, max_y, grid, it, raised>>

Next ==
    \/ Doc_Fetch \/ Doc_Parse \/ Doc_TableRow \/ Doc_TableEnd
    \/ Doc_Match \/ Doc_MatchEnd \/ Doc_Alloc
    \/ Doc_Populate \/ Doc_PopulateEnd \/ Doc_Render
    \/ Data_Lines \/ Data_Columns \/ Data_Coerce \/ Data_Empty \/ Data_Alloc
    \/ Data_Populate \/ Data_PopulateEnd \/ Data_Render

Spec == Init /\ [][Next]_vars

\* ================================================================ claims
Kinds(k) == {i \in DOMAIN out : out[i].kind = k}
GridLines == SelectSeq(out, LAMBDA l : l.kind = "grid")

\* The run ended after rendering: every early exit prints an empty-result or
\* a diagnostic line.
Rendered == pc = "done" /\ Kinds("empty") = {} /\ Kinds("diag") = {}
Allocated == pc \in {"doc_populate", "doc_print", "data_populate", "data_print"} \/ Rendered
Populated == pc \in {"doc_print", "data_print"} \/ Rendered

\* The points handed to grid building: the list `points`, or the rows of the
\* DataFrame after the coercion of lines 38-46.
Pts ==
    IF fn = "doc" THEN points
    ELSE [i \in DOMAIN data |->
            [x |-> data[i][x_col], char |-> Str(data[i][char_col]), y |-> data[i][y_col]]]

Covered(x, y) == \E i \in DOMAIN Pts : Pts[i].x = x /\ Pts[i].y = y

\* Cell (x, y) exists in the grid and holds char.
CellIs(x, y, char) ==
    /\ 0 <= y /\ y < Len(grid)
    /\ 0 <= x /\ x < Len(grid[y + 1])
    /\ grid[y + 1][x + 1] = char

\* C1: the allocated grid has max_y(P)+1 rows of max_x(P)+1 columns each, for
\* the points P handed to grid building, from allocation to the end of the run.
C1_GridDimensions ==
    Allocated =>
        /\ Len(grid) = Max({Pts[i].y : i \in DOMAIN Pts}) + 1
        /\ \A r \in DOMAIN grid :
              Len(grid[r]) = Max({Pts[i].x : i \in DOMAIN Pts}) + 1

\* C2: after population every point's cell holds that point's character,
\* unless a later point has the same coordinates.
C2_LastWriteWins ==
    Populated =>
        \A i \in DOMAIN Pts :
            (\A j \in DOMAIN Pts : j > i => ~(Pts[j].x = Pts[i].x /\ Pts[j].y = Pts[i].y))
                => CellIs(Pts[i].x, Pts[i].y, Pts[i].char)

\* C3: from allocation on, through population and rendering, every cell whose
\* coordinates are those of no point holds the blank character.
C3_UncoveredBlank ==
    Allocated =>
        \A r \in DOMAIN grid : \A c \in DOMAIN grid[r] :
            ~Covered(c - 1, r - 1) => grid[r][c] = Blank

C3_Witness ==
    /\ Rendered
    /\ \E r \in DOMAIN grid : \E c \in DOMAIN grid[r] : ~Covered(c - 1, r - 1)
    /\ \E r \in DOMAIN grid : \E c \in DOMAIN grid[r] : grid[r][c] # Blank

\* ---- C4
AllDigits(t, a, b) == a <= b /\ \A k \in a..b : IsDigit(t[k])

\* t[s .. e-1] is digits, one non-digit at sep, digits.
IsPatternSpan(t, s, sep, e) ==
    /\ 1 <= s /\ e <= Len(t) + 1
    /\ AllDigits(t, s, sep - 1)
    /\ ~IsDigit(t[sep])
    /\ AllDigits(t, sep + 1, e - 1)

\* Some occurrence of the pattern lies inside t[a .. ] and starts before b.
PatternStartsIn(t, a, b) ==
    \E s \in a..(b - 1) : \E sep \in (s + 1)..Len(t) : \E e \in (sep + 2)..(Len(t) + 1) :
        IsPatternSpan(t, s, sep, e)

\* The value of the decimal digits t[a .. b], most significant first.
RECURSIVE Decimal(_, _, _, _)
Decimal(t, a, b, acc) ==
    IF a > b THEN acc ELSE Decimal(t, a + 1, b, 10 * acc + DigitVal(t[a]))

Scanning == fn = "doc" /\ pc \in {"doc_match", "doc_alloc", "doc_populate", "doc_print"}
Scanned == fn = "doc" /\ (pc \in {"doc_alloc", "doc_populate", "doc_print"}
                          \/ (pc = "done" /\ input.fetch /\ input.table))

\* C4: each match is one greedy digits/non-digit/digits span and yields one
\* point (x, char, y) in match order; consecutive matches do not overlap, the
\* scan resumes at the previous match's end, and nothing the pattern matches
\* is skipped.
C4_PatternExtractor ==
    LET t == input.text
        PrevEnd(k) == IF k = 1 THEN 1 ELSE matches[k - 1].e IN
    /\ (Scanning \/ Scanned) =>
        /\ Len(points) = Len(matches)
        /\ pos = PrevEnd(Len(matches) + 1)
        /\ \A k \in DOMAIN matches :
            LET m == matches[k] IN
            /\ IsPatternSpan(t, m.s, m.sep, m.e)
            /\ m.e = Len(t) + 1 \/ ~IsDigit(t[m.e])
            /\ points[k] = [x |-> Decimal(t, m.s, m.sep - 1, 0),
                            char |-> <<t[m.sep]>>,
                            y |-> Decimal(t, m.sep + 1, m.e - 1, 0)]
            /\ PrevEnd(k) <= m.s
            /\ ~PatternStartsIn(t, PrevEnd(k), m.s)
    /\ Scanned =>
        /\ ~PatternStartsIn(t, pos, Len(t) + 1)
        /\ t = <<"1", "A", "2">> => points = <<[x |-> 1, char |-> <<"A">>, y |-> 2]>>

C4_Witness ==
    /\ Scanned
    /\ Len(matches) = 2
    /\ matches[2].s > matches[1].e
    /\ points[1] # points[2]

\* ---- C5
TripleCoords == 0..1
Triples == [x : TripleCoords, char : {<<c>> : c \in TextNonDigits}, y : TripleCoords]
TripleSeqs == UNION {[1..n -> Triples] : n \in 1..2}

\* The decimal digits of n >= 0.
RECURSIVE Digits10(_)
Digits10(n) ==
    LET d == CHOOSE c \in Digits : DigitVal(c) = n % 10 IN
    IF n < 10 THEN <<d>> ELSE Append(Digits10(n \div 10), d)

RECURSIVE Encode(_)
Encode(ts) ==
    IF ts = <<>> THEN <<>>
    ELSE Digits10(Head(ts).x) \o Head(ts).char \o Digits10(Head(ts).y) \o Encode(Tail(ts))

\* C5: the text made by concatenating x, char, y of a sequence of triples,
\* without delimiters, yields exactly those triples as points, in order.
C5_Concatenated ==
    Scanned => \A ts \in TripleSeqs : Encode(ts) = input.text => points = ts

\* ---- C6
GoodHeader == Len(input) >= 1 /\ Range(required_cols) \subseteq Range(Head(input))
InputRows == [i \in 1..(Len(input) - 1) |-> RowOf(Head(input), input[i + 1])]

\* No valid point can be extracted from the input.
ZeroPoints ==
    \/ fn = "doc" /\ input.fetch /\ ~PatternStartsIn(input.text, 1, Len(input.text) + 1)
    \/ fn = "data" /\ Len(input) <= 1
    \/ fn = "data" /\ GoodHeader /\ \A i \in DOMAIN InputRows : ~NotNa(InputRows[i])

\* C6: an input with zero valid points ends with the empty-result message, no
\* grid line and no error report.
C6_EmptyResult ==
    (pc = "done" /\ ZeroPoints) =>
        /\ Kinds("empty") # {}
        /\ Kinds("grid") = {}
        /\ Kinds("diag") = {}
        /\ raised = "none"

\* ---- C7
ValidRow(row) == IsIntText(row[x_col]) /\ IsIntText(row[y_col])

\* C7: rows whose x or y is no integer are dropped and only they: the rows
\* with valid coordinates all survive, in order, and the run does not abort.
C7_BadRowDropped ==
    (fn = "data" /\ pc = "done" /\ Len(input) > 1 /\ GoodHeader) =>
        /\ Kinds("diag") = {}
        /\ raised = "none"
        /\ data = [i \in DOMAIN SelectSeq(InputRows, ValidRow) |->
                      Coerced(SelectSeq(InputRows, ValidRow)[i])]
        /\ SelectSeq(InputRows, ValidRow) # <<>> => Rendered

\* ---- C8
\* C8: the grid lines printed so far are the grid's rows in order, each as
\* long as the row has columns, and a finished rendering has one per row.
C8_LinePerRow ==
    /\ Len(GridLines) <= Len(grid)
    /\ \A k \in DOMAIN GridLines :
          /\ GridLines[k].val = Join(grid[k])
          /\ Len(GridLines[k].val) = Len(grid[k])
    /\ Rendered => Len(GridLines) = Len(grid)

\* ---- C9
\* C9: every point that reaches the computation of max_x / max_y and the
\* grid has x >= 0 and y >= 0.
C9_NonNegative ==
    (pc \in {"doc_alloc", "data_alloc"} \/ Allocated) =>
        \A i \in DOMAIN Pts : Pts[i].x >= 0 /\ Pts[i].y >= 0

\* ---- C10
\* A document-level or input-shape failure: the fetch fails, the document has
\* no table, a required column is missing, or astype(int) meets a non-finite
\* coordinate.
MissingColumns == fn = "data" /\ Len(input) > 1 /\ ~GoodHeader
Failure ==
    \/ fn = "doc" /\ (~input.fetch \/ ~input.table)
    \/ MissingColumns
    \/ fn = "data" /\ Len(input) > 1 /\ GoodHeader
         /\ \E i \in DOMAIN InputRows : NotNa(InputRows[i]) /\ ~Finite(InputRows[i])

====
